---------------------------- MODULE Spec2Model ----------------------------
(***************************************************************************)
(* Model of rclcpp/detail/qos_parameters.hpp: declaration of the           *)
(* "qos_overrides.*" parameters of a publisher or subscription and the     *)
(* conversion of QoS policies to and from parameter values.                *)
(*                                                                         *)
(* 64-bit quantities (rmw_time_t::sec/nsec, size_t depth, int64_t          *)
(* parameter values) are sequences of four 16-bit limbs, least significant *)
(* limb first; signed quantities are in two's complement.  All arithmetic  *)
(* is exact modulo 2^64, so the casts of the source keep their width.      *)
(***************************************************************************)
EXTENDS Integers, Sequences, FiniteSets, TLC

Limb == 2^16
HalfLimb == 2^15

(* An unsigned 64-bit pattern from a small natural number (n < 2^31). *)
U64(n) == <<n % Limb, n \div Limb, 0, 0>>

(* A 64-bit pattern from its 16-bit limbs written most significant first. *)
Limbs(l3, l2, l1, l0) == <<l0, l1, l2, l3>>

RECURSIVE MulSmall(_, _, _)
(* x * c + carry, truncated to the width of x; c is at most 1000. *)
MulSmall(x, c, carry) ==
    IF x = <<>> THEN <<>>
    ELSE LET t == Head(x) * c + carry
         IN  <<t % Limb>> \o MulSmall(Tail(x), c, t \div Limb)

RECURSIVE AddLimbs(_, _, _)
(* x + y + carry, truncated to the width of x (Len(x) = Len(y)). *)
AddLimbs(x, y, carry) ==
    IF x = <<>> THEN <<>>
    ELSE LET t == Head(x) + Head(y) + carry
         IN  <<t % Limb>> \o AddLimbs(Tail(x), Tail(y), t \div Limb)

RECURSIVE DivSmall(_, _)
(* Quotient and remainder of the unsigned x by c (c at most 1000). *)
DivSmall(x, c) ==
    IF x = <<>> THEN [q |-> <<>>, r |-> 0]
    ELSE LET hi == DivSmall(Tail(x), c)
             t  == hi.r * Limb + Head(x)
         IN  [q |-> <<t \div c>> \o hi.q, r |-> t % c]

(* Widening conversions of a 32-bit pattern (two limbs) to `width` limbs. *)
ZeroExtend(x, width) == x \o [i \in 1..(width - Len(x)) |-> 0]
SignExtend(x, width) ==
    x \o [i \in 1..(width - Len(x)) |->
            IF x[Len(x)] >= HalfLimb THEN Limb - 1 ELSE 0]

IsNegative(x) == x[Len(x)] >= HalfLimb

(* RCL_S_TO_NS: seconds * 1000 * 1000 * 1000, in the width of x. *)
RCL_S_TO_NS(x) == MulSmall(MulSmall(MulSmall(x, 1000, 0), 1000, 0), 1000, 0)

(* static_cast<int32_t>(uint64_t) and static_cast<uint32_t>(uint64_t):     *)
(* both keep the low 32 bits; the signedness shows when they are widened.  *)
static_cast_int32_t(u) == SubSeq(u, 1, 2)
static_cast_uint32_t(u) == SubSeq(u, 1, 2)

(* rclcpp::Duration(int32_t seconds, uint32_t nanoseconds).nanoseconds():  *)
(* RCL_S_TO_NS(static_cast<int64_t>(seconds)) + nanoseconds.               *)
Duration_sec_nsec(seconds, nanoseconds) ==
    AddLimbs(RCL_S_TO_NS(SignExtend(seconds, 4)), ZeroExtend(nanoseconds, 4), 0)

(* rmw_duration_to_int64_t *)
rmw_duration_to_int64_t(rmw_duration) ==
    Duration_sec_nsec(static_cast_int32_t(rmw_duration.sec),
                      static_cast_uint32_t(rmw_duration.nsec))

(* rclcpp::Duration(int64_t nanoseconds).to_rmw_time(): a negative         *)
(* duration has no rmw_time_t; otherwise sec = ns / 10^9, nsec = ns % 10^9.*)
Duration_to_rmw_time(ns) ==
    LET d1 == DivSmall(ns, 1000)
        d2 == DivSmall(d1.q, 1000)
        d3 == DivSmall(d2.q, 1000)
    IN  IF IsNegative(ns)
        THEN [ok |-> FALSE, time |-> [sec |-> U64(0), nsec |-> U64(0)]]
        ELSE [ok |-> TRUE,
              time |-> [sec |-> d3.q,
                        nsec |-> U64(d1.r + 1000 * d2.r + 1000000 * d3.r)]]


-----------------------------------------------------------------------------
(* rclcpp::QosPolicyKind *)
QosPolicyKind ==
    {"AvoidRosNamespaceConventions", "Deadline", "Durability", "History",
     "Depth", "Lifespan", "Liveliness", "LivelinessLeaseDuration",
     "Reliability"}

DurationKinds == {"Deadline", "Lifespan", "LivelinessLeaseDuration"}
StringEnumKinds == {"Durability", "History", "Liveliness", "Reliability"}

(* PublisherQosParametersTraits::allowed_policies() *)
PublisherAllowedPolicies ==
    <<"AvoidRosNamespaceConventions", "Deadline", "Durability", "History",
      "Depth", "Lifespan", "Liveliness", "LivelinessLeaseDuration",
      "Reliability">>

(* SubscriptionQosParametersTraits::allowed_policies() *)
SubscriptionAllowedPolicies ==
    <<"AvoidRosNamespaceConventions", "Deadline", "Durability", "History",
      "Depth", "Liveliness", "LivelinessLeaseDuration", "Reliability">>

(* EntityQosParametersTraits::entity_type() *)
entity_type(traits) ==
    IF traits = "PublisherQosParametersTraits" THEN "publisher"
    ELSE "subscription"

(* The publisher's catalog used for every entity. *)
allowed_policies_of_publisher(traits) == PublisherAllowedPolicies

(* EntityQosParametersTraits::allowed_policies() *)
allowed_policies(traits) ==
    IF traits = "PublisherQosParametersTraits" THEN PublisherAllowedPolicies
    ELSE SubscriptionAllowedPolicies

(* qos_policy_kind_to_cstr *)
qos_policy_kind_to_cstr(policy) ==
    CASE policy = "AvoidRosNamespaceConventions" -> "avoid_ros_namespace_conventions"
      [] policy = "Deadline" -> "deadline"
      [] policy = "Durability" -> "durability"
      [] policy = "History" -> "history"
      [] policy = "Depth" -> "depth"
      [] policy = "Lifespan" -> "lifespan"
      [] policy = "Liveliness" -> "liveliness"
      [] policy = "LivelinessLeaseDuration" -> "liveliness_lease_duration"
      [] policy = "Reliability" -> "reliability"

-----------------------------------------------------------------------------
(* The enum string lookup tables of rmw/qos_string_conversions.h: pairs of *)
(* <<enum value, string>>.  The UNKNOWN value of each enum has no string.  *)
UNKNOWN == "UNKNOWN"
NULL == "(null)"

PolicyStrings(kind) ==
    CASE kind = "Durability" ->
            {<<"SYSTEM_DEFAULT", "system_default">>,
             <<"TRANSIENT_LOCAL", "transient_local">>,
             <<"VOLATILE", "volatile">>}
      [] kind = "History" ->
            {<<"SYSTEM_DEFAULT", "system_default">>,
             <<"KEEP_LAST", "keep_last">>,
             <<"KEEP_ALL", "keep_all">>}
      [] kind = "Liveliness" ->
            {<<"SYSTEM_DEFAULT", "system_default">>,
             <<"AUTOMATIC", "automatic">>,
             <<"MANUAL_BY_TOPIC", "manual_by_topic">>}
      [] kind = "Reliability" ->
            {<<"SYSTEM_DEFAULT", "system_default">>,
             <<"RELIABLE", "reliable">>,
             <<"BEST_EFFORT", "best_effort">>}

(* rmw_qos_<kind>_policy_to_str: the string of an enum value, or NULL. *)
rmw_qos_policy_to_str(kind, value) ==
    IF \E e \in PolicyStrings(kind) : e[1] = value
    THEN (CHOOSE e \in PolicyStrings(kind) : e[1] = value)[2]
    ELSE NULL

(* rmw_qos_<kind>_policy_from_str: the enum value of a string, or UNKNOWN. *)
rmw_qos_policy_from_str(kind, str) ==
    IF \E e \in PolicyStrings(kind) : e[2] = str
    THEN (CHOOSE e \in PolicyStrings(kind) : e[2] = str)[1]
    ELSE UNKNOWN

-----------------------------------------------------------------------------
(* rclcpp::ParameterValue: a tagged value; the fields of the other         *)
(* variants are kept at a fixed filler so that values stay comparable.     *)
ParameterValue_bool(b) ==
    [type |-> "PARAMETER_BOOL", b |-> b, i |-> U64(0), s |-> ""]
ParameterValue_int64(i) ==
    [type |-> "PARAMETER_INTEGER", b |-> FALSE, i |-> i, s |-> ""]
ParameterValue_string(s) ==
    [type |-> "PARAMETER_STRING", b |-> FALSE, i |-> U64(0), s |-> s]

(* The member of rmw_qos_profile_t that holds a policy kind. *)
SlotName(policy) ==
    CASE policy = "AvoidRosNamespaceConventions" -> "avoid_ros_namespace_conventions"
      [] policy = "Deadline" -> "deadline"
      [] policy = "Durability" -> "durability"
      [] policy = "History" -> "history"
      [] policy = "Depth" -> "depth"
      [] policy = "Lifespan" -> "lifespan"
      [] policy = "Liveliness" -> "liveliness"
      [] policy = "LivelinessLeaseDuration" -> "liveliness_lease_duration"
      [] policy = "Reliability" -> "reliability"

Slot(qos, policy) == qos[SlotName(policy)]

(* The outcome of a call that may throw. *)
Returned(result) == [error |-> "none", result |-> result]
Thrown(error, result) == [error |-> error, result |-> result]

(* check_if_stringified_policy_is_null.  The message of the exception is   *)
(* built by streaming the null pointer itself (line 256), which is         *)
(* undefined: see NullStreamed.                                            *)
check_if_stringified_policy_is_null(policy_value_stringified) ==
    IF policy_value_stringified = NULL
    THEN Thrown("invalid_argument: unknown qos policy value in profile",
                ParameterValue_string(""))
    ELSE Returned(ParameterValue_string(policy_value_stringified))

(* get_default_qos_param_value *)
get_default_qos_param_value(qpk, qos) ==
    CASE qpk = "AvoidRosNamespaceConventions" ->
            Returned(ParameterValue_bool(qos.avoid_ros_namespace_conventions))
      [] qpk = "Deadline" ->
            Returned(ParameterValue_int64(rmw_duration_to_int64_t(qos.deadline)))
      [] qpk = "Durability" ->
            check_if_stringified_policy_is_null(
                rmw_qos_policy_to_str("Durability", qos.durability))
      [] qpk = "History" ->
            check_if_stringified_policy_is_null(
                rmw_qos_policy_to_str("History", qos.history))
      [] qpk = "Depth" ->
            Returned(ParameterValue_int64(qos.depth))
      [] qpk = "Lifespan" ->
            Returned(ParameterValue_int64(rmw_duration_to_int64_t(qos.lifespan)))
      [] qpk = "Liveliness" ->
            check_if_stringified_policy_is_null(
                rmw_qos_policy_to_str("Liveliness", qos.liveliness))
      [] qpk = "LivelinessLeaseDuration" ->
            Returned(ParameterValue_int64(
                rmw_duration_to_int64_t(qos.liveliness_lease_duration)))
      [] qpk = "Reliability" ->
            check_if_stringified_policy_is_null(
                rmw_qos_policy_to_str("Reliability", qos.reliability))
      [] OTHER ->
            Thrown("invalid_argument: unknown qos policy kind",
                   ParameterValue_bool(FALSE))

(* QoS::deadline / lifespan / liveliness_lease_duration(rclcpp::Duration): *)
(* stores duration.to_rmw_time() in the member.                            *)
SetDuration(qos, member, ns) ==
    LET t == Duration_to_rmw_time(ns)
    IN  IF t.ok THEN Returned([qos EXCEPT ![member] = t.time])
        ELSE Thrown("runtime_error: rmw_time_t cannot be negative", qos)

(* The macro without its last statement: the policy is looked up and      *)
(* checked but never stored.                                               *)
QOS_POLICY_FROM_PARAMETER_STRING_not_stored(kind, member, parameter_value, rclcpp_qos) ==
    IF parameter_value.type # "PARAMETER_STRING"
    THEN Thrown("ParameterTypeException", rclcpp_qos)
    ELSE IF rmw_qos_policy_from_str(kind, parameter_value.s) = UNKNOWN
         THEN Thrown("invalid_argument: unknown qos policy " \o member
                         \o " value: " \o parameter_value.s, rclcpp_qos)
         ELSE Returned(rclcpp_qos)

(* The macro with the store moved before the UNKNOWN check. *)
QOS_POLICY_FROM_PARAMETER_STRING_stored_first(kind, member, parameter_value, rclcpp_qos) ==
    IF parameter_value.type # "PARAMETER_STRING"
    THEN Thrown("ParameterTypeException", rclcpp_qos)
    ELSE LET policy_value == rmw_qos_policy_from_str(kind, parameter_value.s)
             stored == [rclcpp_qos EXCEPT ![member] = policy_value]
         IN  IF policy_value = UNKNOWN
             THEN Thrown("invalid_argument: unknown qos policy " \o member
                             \o " value: " \o parameter_value.s, stored)
             ELSE Returned(stored)

(* RCLCPP_DETAIL_QOS_POLICY_FROM_PARAMETER_STRING *)
QOS_POLICY_FROM_PARAMETER_STRING(kind, member, parameter_value, rclcpp_qos) ==
    IF parameter_value.type # "PARAMETER_STRING"
    THEN Thrown("ParameterTypeException", rclcpp_qos)
    ELSE LET policy_string == parameter_value.s
             policy_value == rmw_qos_policy_from_str(kind, policy_string)
         IN  IF policy_value = UNKNOWN
             THEN Thrown("invalid_argument: unknown qos policy " \o member
                             \o " value: " \o policy_string, rclcpp_qos)
             ELSE Returned([rclcpp_qos EXCEPT ![member] = policy_value])

(* apply_qos_override *)
apply_qos_override(policy, value, qos) ==
    CASE policy = "AvoidRosNamespaceConventions" ->
            IF value.type # "PARAMETER_BOOL"
            THEN Thrown("ParameterTypeException", qos)
            ELSE Returned([qos EXCEPT !.avoid_ros_namespace_conventions = value.b])
      [] policy = "Deadline" ->
            IF value.type # "PARAMETER_INTEGER"
            THEN Thrown("ParameterTypeException", qos)
            ELSE SetDuration(qos, "deadline", value.i)
      [] policy = "Durability" ->
            QOS_POLICY_FROM_PARAMETER_STRING("Durability", "durability", value, qos)
      [] policy = "History" ->
            QOS_POLICY_FROM_PARAMETER_STRING("History", "history", value, qos)
      [] policy = "Depth" ->
            IF value.type # "PARAMETER_INTEGER"
            THEN Thrown("ParameterTypeException", qos)
            ELSE Returned([qos EXCEPT !.depth = value.i])
      [] policy = "Lifespan" ->
            IF value.type # "PARAMETER_INTEGER"
            THEN Thrown("ParameterTypeException", qos)
            ELSE SetDuration(qos, "lifespan", value.i)
      [] policy = "Liveliness" ->
            QOS_POLICY_FROM_PARAMETER_STRING("Liveliness", "liveliness", value, qos)
      [] policy = "LivelinessLeaseDuration" ->
            IF value.type # "PARAMETER_INTEGER"
            THEN Thrown("ParameterTypeException", qos)
            ELSE SetDuration(qos, "liveliness_lease_duration", value.i)
      [] policy = "Reliability" ->
            QOS_POLICY_FROM_PARAMETER_STRING("Reliability", "reliability", value, qos)
      [] OTHER -> Thrown("runtime_error: unknown QosPolicyKind", qos)

-----------------------------------------------------------------------------
(* The prefix with the "_" written even for an empty id. *)
param_prefix_always_underscore(traits, topic_name, id) ==
    "qos_overrides." \o topic_name \o "." \o entity_type(traits)
        \o "_" \o id \o "."

(* The prefix without the id. *)
param_prefix_without_id(traits, topic_name, id) ==
    "qos_overrides." \o topic_name \o "." \o entity_type(traits) \o "."

(* The parameter prefix built at the top of declare_qos_parameters. *)
param_prefix(traits, topic_name, id) ==
    "qos_overrides." \o topic_name \o "." \o entity_type(traits)
        \o (IF id # "" THEN "_" \o id ELSE "") \o "."

(* The description suffix built at the top of declare_qos_parameters. *)
param_description_suffix(traits, topic_name, id) ==
    "} for " \o entity_type(traits) \o " {" \o topic_name \o "}"
        \o (IF id # "" THEN " with id {" \o id \o "}" ELSE "")

(* The name of the parameter declared for a policy. *)
param_name(traits, topic_name, id, policy) ==
    param_prefix(traits, topic_name, id) \o qos_policy_kind_to_cstr(policy)

(* The description of the parameter declared for a policy. *)
param_description(traits, topic_name, id, policy) ==
    "qos policy {" \o qos_policy_kind_to_cstr(policy)
        \o param_description_suffix(traits, topic_name, id)

(* std::count(options.policy_kinds.begin(), options.policy_kinds.end(), policy) *)
count(policy_kinds, policy) ==
    Cardinality({i \in 1..Len(policy_kinds) : policy_kinds[i] = policy})

-----------------------------------------------------------------------------
(* Inputs of a call.                                                       *)

(* Longest options.policy_kinds vector drawn freely from QosPolicyKind. *)
MaxPolicyKinds == 2

rmw_time(sec, nsec) == [sec |-> sec, nsec |-> nsec]

(* rmw_qos_profile_default *)
DefaultProfile ==
    [history |-> "KEEP_LAST", depth |-> U64(10), reliability |-> "RELIABLE",
     durability |-> "VOLATILE", deadline |-> rmw_time(U64(0), U64(0)),
     lifespan |-> rmw_time(U64(0), U64(0)), liveliness |-> "SYSTEM_DEFAULT",
     liveliness_lease_duration |-> rmw_time(U64(0), U64(0)),
     avoid_ros_namespace_conventions |-> FALSE]

(* A profile with durations beyond 2^31 seconds: a deadline of 2^32 + 1 s  *)
(* and 5 ns, a lifespan of 9223372036 s 854775807 ns (the largest          *)
(* duration an int64_t nanosecond count holds), a lease of 2^31 s, and a   *)
(* depth of 2^63 + 1.                                                      *)
LongProfile ==
    [history |-> "KEEP_ALL", depth |-> Limbs(32768, 0, 0, 1),
     reliability |-> "BEST_EFFORT", durability |-> "TRANSIENT_LOCAL",
     deadline |-> rmw_time(Limbs(0, 1, 0, 1), U64(5)),
     lifespan |-> rmw_time(Limbs(0, 2, 9665, 32004), U64(854775807)),
     liveliness |-> "AUTOMATIC",
     liveliness_lease_duration |-> rmw_time(Limbs(0, 0, 32768, 0), U64(0)),
     avoid_ros_namespace_conventions |-> TRUE]

(* A profile with short durations and one enum slot left UNKNOWN. *)
UnknownLivelinessProfile ==
    [history |-> "KEEP_LAST", depth |-> U64(5), reliability |-> "BEST_EFFORT",
     durability |-> "VOLATILE", deadline |-> rmw_time(U64(1), U64(500000000)),
     lifespan |-> rmw_time(U64(2), U64(0)), liveliness |-> UNKNOWN,
     liveliness_lease_duration |-> rmw_time(U64(0), U64(999999999)),
     avoid_ros_namespace_conventions |-> FALSE]

Profiles == {DefaultProfile, LongProfile, UnknownLivelinessProfile}

TopicNames == {"chatter", "ns.topic"}
Ids == {"", "sensor"}

(* Ids of many shapes: with the delimiters and the kind names in them. *)
ManyIds == Ids \cup {"a.b", "sensor.depth", "depth", "sensor_", "_", "."}

(* Validation callbacks: none, one that rejects every profile, one that    *)
(* accepts the profiles whose reliability is RELIABLE.                     *)
ValidationCallbacks == {"none", "reject", "reliable"}

validation_callback(callback, qos) ==
    CASE callback = "reject" -> FALSE
      [] callback = "reliable" -> qos.reliability = "RELIABLE"
      [] OTHER -> TRUE

(* QosOverridingOptions::with_default_policies() and other requests longer *)
(* than MaxPolicyKinds: out of catalog order, repeated, all kinds.         *)
LongPolicyKinds ==
    {<<"History", "Depth", "Reliability">>,
     <<"Reliability", "Depth", "Depth", "Lifespan", "Deadline">>,
     <<"Reliability", "LivelinessLeaseDuration", "Liveliness", "Lifespan",
       "Depth", "History", "Durability", "Deadline",
       "AvoidRosNamespaceConventions">>}

(* The requests of the calls that differ in entity type and id. *)
NamedPolicyKinds ==
    {<<"Depth">>, <<"Lifespan">>, <<"History", "Depth", "Reliability">>}

AllTraits == {"PublisherQosParametersTraits", "SubscriptionQosParametersTraits"}

PolicyKindVectors ==
    UNION {[1..n -> QosPolicyKind] : n \in 0..MaxPolicyKinds} \cup LongPolicyKinds

(* int64_t -1 *)
MinusOne == Limbs(65535, 65535, 65535, 65535)

(* The values the parameter store may hold as an override of a policy's    *)
(* parameter: one the policy accepts, one it cannot convert.               *)
OverrideValues(policy) ==
    CASE policy = "AvoidRosNamespaceConventions" ->
            {ParameterValue_bool(TRUE), ParameterValue_string("true")}
      [] policy \in DurationKinds ->
            {ParameterValue_int64(U64(1000000000)), ParameterValue_int64(MinusOne)}
      [] policy = "Depth" ->
            {ParameterValue_int64(U64(5)), ParameterValue_int64(MinusOne)}
      [] policy \in StringEnumKinds ->
            {ParameterValue_string("system_default"),
             ParameterValue_string("not-a-real-value")}

(* NodeParametersInterface::declare_parameter(name, default_value,         *)
(* descriptor): returns the effective value (the default or an override)   *)
(* or throws.                                                              *)
declare_parameter(policy, default_value) ==
    {Returned(default_value)}
        \cup {Returned(v) : v \in OverrideValues(policy)}
        \cup {Thrown("ParameterAlreadyDeclaredException", default_value)}

-----------------------------------------------------------------------------
VARIABLES
    pc,             \* "idle", "loop", "returned", "thrown" or "terminated"
    traits,         \* EntityQosParametersTraits of the call
    options,        \* QosOverridingOptions: id, policy_kinds, validation_callback
    topic_name,
    qos,            \* the profile, modified in place
    qos_in,         \* the profile as it was passed to the call
    idx,            \* position of the loop in allowed_policies()
    exception,      \* what was thrown and at which stage, stage "none" if nothing
    store_calls,    \* the declare_parameter calls issued, in order
    store_returns,  \* the values declare_parameter returned, in order
    callback_args   \* the profiles the validation callback was invoked with

vars == <<pc, traits, options, topic_name, qos, qos_in, idx, exception,
          store_calls, store_returns, callback_args>>

NoException == [what |-> "", stage |-> "none", policy |-> ""]

Init ==
    /\ pc = "idle"
    /\ traits = "PublisherQosParametersTraits"
    /\ options = [id |-> "", policy_kinds |-> <<>>, validation_callback |-> "none"]
    /\ topic_name = ""
    /\ qos = DefaultProfile
    /\ qos_in = DefaultProfile
    /\ idx = 1
    /\ exception = NoException
    /\ store_calls = <<>>
    /\ store_returns = <<>>
    /\ callback_args = <<>>

(* Entry into declare_qos_parameters with the given traits, the arguments  *)
(* drawn from the given sets.                                              *)
Call(entity_traits, ids, vectors, callbacks, profiles) ==
    /\ pc = "idle"
    /\ \E id \in ids, kinds \in vectors, cb \in callbacks :
          options' = [id |-> id, policy_kinds |-> kinds, validation_callback |-> cb]
    /\ topic_name' \in TopicNames
    /\ qos' \in profiles
    /\ qos_in' = qos'
    /\ traits' = entity_traits
    /\ pc' = "loop"
    /\ idx' = 1
    /\ UNCHANGED <<exception, store_calls, store_returns, callback_args>>

declare_qos_parameters(entity_traits) ==
    Call(entity_traits, Ids, PolicyKindVectors, ValidationCallbacks, Profiles)

declare_publisher_qos_parameters ==
    declare_qos_parameters("PublisherQosParametersTraits")

declare_subscription_qos_parameters ==
    declare_qos_parameters("SubscriptionQosParametersTraits")

(* What streaming a null const char * into the message does before the    *)
(* throw of check_if_stringified_policy_is_null: the stream ignores it and *)
(* the exception is thrown, or the process dies in operator<<.             *)
NullStreamed == {"thrown", "terminated"}

(* The process dies inside the call. *)
Terminate(stage, policy) ==
    /\ pc' = "terminated"
    /\ exception' = [what |-> "terminated", stage |-> stage, policy |-> policy]
    /\ idx' = idx

(* The exception is recorded but the loop goes on with the next policy. *)
Throw_and_continue(what, stage, policy) ==
    /\ pc' = pc
    /\ exception' = [what |-> what, stage |-> stage, policy |-> policy]
    /\ idx' = idx + 1

(* An exception leaves declare_qos_parameters. *)
Throw(what, stage, policy) ==
    /\ pc' = "thrown"
    /\ exception' = [what |-> what, stage |-> stage, policy |-> policy]
    /\ idx' = idx

(* The loop moves on to the next allowed policy. *)
Continue ==
    /\ pc' = pc
    /\ exception' = exception
    /\ idx' = idx + 1

(* The test on options.policy_kinds left out. *)
Requested_always(policy) == TRUE

(* The policies for which std::count(...) is non-zero. *)
Requested(policy) == count(options.policy_kinds, policy) # 0

(* One iteration of the loop over allowed_policies(), for a policy that is *)
(* not in options.policy_kinds.                                            *)
SkipPolicy ==
    /\ pc = "loop"
    /\ idx <= Len(allowed_policies(traits))
    /\ ~Requested(allowed_policies(traits)[idx])
    /\ Continue
    /\ UNCHANGED <<traits, options, topic_name, qos, qos_in, store_calls,
                   store_returns, callback_args>>

(* One iteration of the loop for a policy in options.policy_kinds: the     *)
(* default is computed, the parameter declared and its value applied.      *)
DeclarePolicy ==
    /\ pc = "loop"
    /\ idx <= Len(allowed_policies(traits))
    /\ LET policy == allowed_policies(traits)[idx]
           default_value == get_default_qos_param_value(policy, qos)
           call == [policy |-> policy,
                    name |-> param_name(traits, topic_name, options.id, policy),
                    default_value |-> default_value.result,
                    description |->
                        param_description(traits, topic_name, options.id, policy),
                    read_only |-> TRUE]
       IN  /\ Requested(policy)
           /\ IF default_value.error # "none"
              THEN /\ \E outcome \in NullStreamed :
                         IF outcome = "thrown"
                         THEN Throw(default_value.error, "encode", policy)
                         ELSE Terminate("encode", policy)
                   /\ UNCHANGED <<qos, store_calls, store_returns>>
              ELSE \E value \in declare_parameter(policy, default_value.result) :
                      /\ store_calls' = Append(store_calls, call)
                      /\ IF value.error # "none"
                         THEN /\ Throw(value.error, "declare", policy)
                              /\ UNCHANGED <<qos, store_returns>>
                         ELSE LET applied ==
                                      apply_qos_override(policy, value.result, qos)
                              IN  /\ store_returns' =
                                        Append(store_returns,
                                               [policy |-> policy,
                                                value |-> value.result])
                                  /\ qos' = applied.result
                                  /\ IF applied.error # "none"
                                     THEN Throw(applied.error, "apply", policy)
                                     ELSE Continue
    /\ UNCHANGED <<traits, options, topic_name, qos_in, callback_args>>

(* The test without its negation. *)
ValidationFails_not_negated == validation_callback(options.validation_callback, qos)

(* options.validation_callback && !options.validation_callback(qos), for  *)
(* options that carry a callback.                                          *)
ValidationFails == ~validation_callback(options.validation_callback, qos)

(* After the loop: the validation callback, if any, and the return. *)
Validate ==
    /\ pc = "loop"
    /\ idx > Len(allowed_policies(traits))
    /\ IF options.validation_callback # "none"
       THEN /\ callback_args' = Append(callback_args, qos)
            /\ IF ValidationFails
               THEN Throw("InvalidQosOverridesException: validation callback failed",
                          "validate", "")
               ELSE pc' = "returned" /\ UNCHANGED <<exception, idx>>
       ELSE /\ pc' = "returned"
            /\ UNCHANGED <<exception, idx, callback_args>>
    /\ UNCHANGED <<traits, options, topic_name, qos, qos_in, store_calls,
                   store_returns>>

Next ==
    \/ declare_publisher_qos_parameters
    \/ declare_subscription_qos_parameters
    \/ SkipPolicy
    \/ DeclarePolicy
    \/ Validate

Spec == Init /\ [][Next]_vars

(* The same call for entities that differ in type and id only: ids of many *)
(* shapes, the default profile, no callback, short requests.               *)
declare_qos_parameters_with_id ==
    \E t \in AllTraits :
        Call(t, ManyIds, NamedPolicyKinds, {"none"}, {DefaultProfile})

NextNames ==
    \/ declare_qos_parameters_with_id
    \/ SkipPolicy
    \/ DeclarePolicy
    \/ Validate

SpecNames == Init /\ [][NextNames]_vars

-----------------------------------------------------------------------------
(* Definitions used to state the properties.                               *)

Range(seq) == {seq[i] : i \in DOMAIN seq}

(* The catalog of the entry point used: the publisher's nine kinds, and    *)
(* for a subscription the same kinds in the same order without Lifespan.   *)
IsNotLifespan(k) == k # "Lifespan"
ExpectedCatalog ==
    IF traits = "PublisherQosParametersTraits" THEN PublisherAllowedPolicies
    ELSE SelectSeq(PublisherAllowedPolicies, IsNotLifespan)

InRequest(k) == k \in Range(options.policy_kinds)

(* The kinds that are both in the catalog and in the requested set. *)
EligibleRequested == {k \in Range(ExpectedCatalog) : InRequest(k)}

(* The catalog entries the loop has passed. *)
Passed ==
    SubSeq(ExpectedCatalog, 1,
           IF idx - 1 < Len(ExpectedCatalog) THEN idx - 1 ELSE Len(ExpectedCatalog))

Policies(log) == [n \in DOMAIN log |-> log[n].policy]

(* The slot value a parameter value of the matching variant stands for. *)
Decode(policy, value) ==
    CASE policy = "AvoidRosNamespaceConventions" -> value.b
      [] policy \in DurationKinds -> Duration_to_rmw_time(value.i).time
      [] policy = "Depth" -> value.i
      [] policy \in StringEnumKinds -> rmw_qos_policy_from_str(policy, value.s)

(* sec * 10^9 + nsec without any truncation, in 96 bits. *)
ExactNanoseconds(t) ==
    AddLimbs(RCL_S_TO_NS(ZeroExtend(t.sec, 6)), ZeroExtend(t.nsec, 6), 0)

FitsInt64(x) == x[6] = 0 /\ x[5] = 0 /\ x[4] < HalfLimb

-----------------------------------------------------------------------------
(* C1: round trip.  Whenever the store returns the default it was given    *)
(* for a kind (no override), applying it succeeds and the kind's slot      *)
(* equals the slot of the profile that was passed in.                      *)
C1_RoundTripIdentity ==
    \A n \in DOMAIN store_returns :
        store_returns[n].value = store_calls[n].default_value =>
            /\ ~(exception.stage = "apply"
                 /\ exception.policy = store_returns[n].policy)
            /\ Slot(qos, store_returns[n].policy)
                   = Slot(qos_in, store_returns[n].policy)

(* C9: for a duration kind the default passed to the store is the int64    *)
(* count sec * 10^9 + nsec of the profile's slot whenever that count fits  *)
(* in a signed 64-bit integer; and a returned 10^9 ns is written as a      *)
(* duration of one second.                                                 *)
C9_DurationDefaultIsNanosecondCount ==
    /\ \A n \in DOMAIN store_calls :
          LET exact == ExactNanoseconds(Slot(qos_in, store_calls[n].policy))
          IN  (store_calls[n].policy \in DurationKinds /\ FitsInt64(exact)) =>
                  store_calls[n].default_value
                      = ParameterValue_int64(SubSeq(exact, 1, 4))
    /\ \A n \in DOMAIN store_returns :
          (/\ store_returns[n].policy \in DurationKinds
           /\ store_returns[n].value = ParameterValue_int64(U64(1000000000))) =>
              Slot(qos, store_returns[n].policy) = rmw_time(U64(1), U64(0))

-----------------------------------------------------------------------------
(* C2: when the call has returned, every kind that is in the catalog and   *)
(* in the requested set holds the decoding of the value the store returned *)
(* for it; a returned depth of 5 reads back as 5.                          *)
C2_ReturnedProfileHoldsEffectiveValues ==
    pc = "returned" =>
        /\ \A k \in EligibleRequested :
              \E n \in DOMAIN store_returns :
                  /\ store_returns[n].policy = k
                  /\ Slot(qos, k) = Decode(k, store_returns[n].value)
        /\ \A n \in DOMAIN store_returns :
              store_returns[n] = [policy |-> "Depth",
                                  value |-> ParameterValue_int64(U64(5))]
                  => qos.depth = U64(5)

(* A call returned after the store overrode a depth other than 5 with 5    *)
(* and replaced the value of an enum kind.                                 *)
C2_Witness ==
    /\ pc = "returned"
    /\ qos_in.depth # U64(5)
    /\ qos.depth = U64(5)
    /\ \E n \in DOMAIN store_returns :
          /\ store_returns[n].policy \in StringEnumKinds
          /\ store_returns[n].value # store_calls[n].default_value

(* C3: a string the reverse lookup maps to UNKNOWN, returned for a         *)
(* string-enum kind, makes the call throw the unknown-policy-value error   *)
(* for that kind and string, leaves the kind's slot as it was passed in,   *)
(* and leaves the values applied for the earlier kinds in the profile.     *)
C3_UnknownEnumStringRejected ==
    \A n \in DOMAIN store_returns :
        LET k == store_returns[n].policy
            v == store_returns[n].value
        IN  (/\ k \in StringEnumKinds
             /\ v.type = "PARAMETER_STRING"
             /\ v.s \notin {e[2] : e \in PolicyStrings(k)}) =>
                /\ pc = "thrown"
                /\ exception.stage = "apply"
                /\ exception.policy = k
                /\ exception.what =
                      "invalid_argument: unknown qos policy "
                          \o qos_policy_kind_to_cstr(k) \o " value: " \o v.s
                /\ n = Len(store_returns)
                /\ Slot(qos, k) = Slot(qos_in, k)
                /\ \A m \in 1..(n - 1) :
                      Slot(qos, store_returns[m].policy)
                          = Decode(store_returns[m].policy, store_returns[m].value)

(* An unknown string was rejected after an earlier kind had been changed   *)
(* by an override.                                                         *)
C3_Witness ==
    /\ pc = "thrown"
    /\ exception.stage = "apply"
    /\ exception.policy \in StringEnumKinds
    /\ Len(store_returns) >= 2
    /\ store_returns[Len(store_returns)].value
           = ParameterValue_string("not-a-real-value")
    /\ Slot(qos, store_returns[1].policy) # Slot(qos_in, store_returns[1].policy)

(* C4: the validation callback is invoked at most once, only after every   *)
(* eligible and requested kind has been declared and applied, on the final *)
(* profile; if it returns false the call throws "validation callback       *)
(* failed" and the profile keeps the applied values; a call with a         *)
(* callback returns only after invoking it.                                *)
C4_ValidationCallback ==
    /\ Len(callback_args) <= 1
    /\ callback_args # <<>> =>
          /\ options.validation_callback # "none"
          /\ pc \in {"returned", "thrown"}
          /\ callback_args[1] = qos
          /\ Policies(store_returns) = SelectSeq(ExpectedCatalog, InRequest)
          /\ \A n \in DOMAIN store_returns :
                Slot(qos, store_returns[n].policy)
                    = Decode(store_returns[n].policy, store_returns[n].value)
          /\ IF validation_callback(options.validation_callback, qos)
             THEN pc = "returned"
             ELSE /\ pc = "thrown"
                  /\ exception.stage = "validate"
                  /\ exception.what =
                        "InvalidQosOverridesException: validation callback failed"
    /\ (pc = "returned" /\ options.validation_callback # "none") =>
          Len(callback_args) = 1
    /\ exception.stage = "validate" => callback_args # <<>>

(* The callback rejected a profile that an override had made invalid: no   *)
(* declaration and no conversion failed.                                   *)
C4_Witness ==
    /\ pc = "thrown"
    /\ exception.stage = "validate"
    /\ options.validation_callback = "reliable"
    /\ validation_callback("reliable", qos_in)
    /\ Len(store_returns) >= 2

(* C5: once something has been thrown nothing more happens: no further    *)
(* declaration, no write to the profile, no callback, no retry.  A failure *)
(* inside the loop ends the call without the callback having been invoked; *)
(* a failure of the default encoding declares nothing for its own kind and *)
(* a failure of the declaration writes nothing.                            *)
C5_FailureAbortsPass ==
    [][ /\ exception.stage # "none" =>
              /\ pc \in {"thrown", "terminated"}
              /\ UNCHANGED <<qos, store_calls, store_returns, callback_args,
                             exception, pc, idx>>
        /\ (exception.stage = "none"
            /\ exception'.stage \in {"encode", "declare", "apply"}) =>
              /\ pc' \in {"thrown", "terminated"}
              /\ callback_args' = <<>>
              /\ exception'.policy = ExpectedCatalog[idx]
              /\ \A n \in DOMAIN store_calls' :
                    \E i \in 1..idx : store_calls'[n].policy = ExpectedCatalog[i]
        /\ (exception.stage = "none" /\ exception'.stage = "encode") =>
              UNCHANGED <<qos, store_calls, store_returns>>
        /\ (exception.stage = "none" /\ exception'.stage = "declare") =>
              UNCHANGED <<qos, store_returns>>
      ]_vars

(* The default encoding of Liveliness failed although later kinds were     *)
(* requested, earlier ones had been declared and a callback was supplied.  *)
C5_Witness ==
    /\ pc = "thrown"
    /\ exception.stage = "encode"
    /\ InRequest("Reliability")
    /\ store_calls # <<>>
    /\ options.validation_callback # "none"

(* C6: while nothing has failed, the declarations issued so far are the    *)
(* catalog entries passed so far that are in the request, one each and in  *)
(* catalog order; a subscription never declares Lifespan nor fails on it.  *)
C6_DeclarationsInCatalogOrder ==
    /\ (pc # "idle" /\ exception.stage = "none") =>
          Policies(store_calls) = SelectSeq(Passed, InRequest)
    /\ pc = "returned" =>
          Policies(store_calls) = SelectSeq(ExpectedCatalog, InRequest)
    /\ traits = "SubscriptionQosParametersTraits" =>
          /\ exception.policy # "Lifespan"
          /\ \A n \in DOMAIN store_calls : store_calls[n].policy # "Lifespan"

(* A subscription returned from a request that repeats Depth, asks for     *)
(* Lifespan and lists the kinds out of catalog order.                      *)
C6_Witness ==
    /\ pc = "returned"
    /\ traits = "SubscriptionQosParametersTraits"
    /\ options.policy_kinds
           = <<"Reliability", "Depth", "Depth", "Lifespan", "Deadline">>
    /\ Policies(store_calls) = <<"Deadline", "Depth", "Reliability">>

(* The tag of the entry point used. *)
EntryPointTag ==
    IF traits = "PublisherQosParametersTraits" THEN "publisher" ELSE "subscription"

(* C7: every name passed to the store is "qos_overrides." + topic + "." +  *)
(* tag + ("_" + id, for a non-empty id) + "." + the kind's string.         *)
C7_ParameterName ==
    \A n \in DOMAIN store_calls :
        /\ store_calls[n].name =
              "qos_overrides." \o topic_name \o "." \o EntryPointTag
                  \o (IF options.id = "" THEN "" ELSE "_" \o options.id)
                  \o "." \o qos_policy_kind_to_cstr(store_calls[n].policy)
        /\ (/\ traits = "PublisherQosParametersTraits"
            /\ topic_name = "chatter"
            /\ store_calls[n].policy = "Depth") =>
              /\ options.id = "" =>
                    store_calls[n].name = "qos_overrides.chatter.publisher.depth"
              /\ options.id = "sensor" =>
                    store_calls[n].name = "qos_overrides.chatter.publisher_sensor.depth"

(* Depth was declared for a publisher on "chatter" without an id. *)
C7_Witness ==
    /\ traits = "PublisherQosParametersTraits"
    /\ topic_name = "chatter"
    /\ options.id = ""
    /\ \E n \in DOMAIN store_calls : store_calls[n].policy = "Depth"

(* C8: a name passed to the store is the name of no other declaration on   *)
(* the same topic, i.e. of no other (entity type, id, kind).               *)
C8_NamesCollisionFree ==
    \A n \in DOMAIN store_calls :
        \A t \in AllTraits, id \in ManyIds, k \in QosPolicyKind :
            <<t, id, k>> # <<traits, options.id, store_calls[n].policy>> =>
                param_name(t, topic_name, id, k) # store_calls[n].name

(* A declaration with a non-empty id on a topic whose name has a dot. *)
C8_Witness ==
    /\ topic_name = "ns.topic"
    /\ options.id = "sensor.depth"
    /\ Len(store_calls) >= 2

(* C10: a slot whose kind is not both in the catalog and in the request    *)
(* always holds the value it was passed in with; a step of the call writes *)
(* no slot but that of the policy the loop is at, and only if requested.   *)
C10_Frame ==
    /\ [](\A k \in QosPolicyKind \ EligibleRequested :
              Slot(qos, k) = Slot(qos_in, k))
    /\ [][pc # "idle" =>
              \A k \in QosPolicyKind :
                  Slot(qos', k) # Slot(qos, k) =>
                      /\ pc = "loop"
                      /\ idx <= Len(ExpectedCatalog)
                      /\ k = ExpectedCatalog[idx]
                      /\ InRequest(k)
         ]_vars

(* A subscription asked for Lifespan had overrides applied and returned    *)
(* or failed with its Lifespan slot and unrequested slots intact.          *)
C10_Witness ==
    /\ pc \in {"returned", "thrown"}
    /\ traits = "SubscriptionQosParametersTraits"
    /\ InRequest("Lifespan")
    /\ qos # qos_in
    /\ qos.lifespan = qos_in.lifespan

=============================================================================
